---- MODULE Spec2Model ----
(***************************************************************************)
(* Model of the gas-price sampler of src/src/lib/openserv.ts (class        *)
(* GasOptimizer, lines 145-233): the process-wide instance with its two    *)
(* fields provider and historicalData, the asynchronous initialize /       *)
(* updateHistoricalData (one step per await), getGasRecommendation (the    *)
(* guard, the await of getFeeData, the synchronous computation) and        *)
(* getHistoricalData; and of the parts of the program around it: the       *)
(* AdvancedReporting component that drives the sampler                     *)
(* (src/src/components/AdvancedReporting.tsx), the wallet store            *)
(* (src/unnamed/part_001) and generateYieldStrategy (src/src/lib/ai.ts     *)
(* with the Gemini agent of src/unnamed/part_000).                         *)
(*                                                                         *)
(* Numbers.  Prices are floating-point gwei in the source                  *)
(* (Number(wei) / 1e9).  The model holds a price as the integer numerator  *)
(* of a fraction with denominator PriceScale, and a fee as the same number *)
(* of quanta of 1e9 / PriceScale wei, so that the division by 1e9 is exact;*)
(* means are compared by cross-multiplication.  Rounding error of the      *)
(* floating-point operations is not modelled.  GasData.priority            *)
(* (Math.random() * 2 + 0.5, line 178) is read by no operation and is left *)
(* out of the samples.                                                     *)
(***************************************************************************)
EXTENDS Integers, Sequences, FiniteSets, TLC

(***************************************************************************)
(* Bounds of the model.                                                    *)
(***************************************************************************)
\* The source fetches 100 blocks per refresh (openserv.ts:172, i < 100).
\* The model runs the same loop with the count scaled down to FetchCount;
\* every statement about "100" is checked as a statement about FetchCount.
FetchCount == 3

\* Sub-units per gwei of the fixed-point prices.
PriceScale == 2

\* Longest window drawn by the recommendation specification SpecRec.
MaxWindow == 3

\* Sub-units per ether of the balances of the wallet store.
EtherScale == 10

(***************************************************************************)
(* Inputs.                                                                 *)
(***************************************************************************)
\* ethers.BrowserProvider | null (line 148)
NoProvider == "null"
Providers == {"p1", "p2"}

\* The callers that may have an initialize in flight at the same time.
Callers == {"A", "B"}
SnapCaller == "A"

\* The callers that may have a connect of the wallet store in flight at the
\* same time, what eth_requestAccounts may resolve to (the wallet's list of
\* accounts) and what getBalance may resolve to (sub-units of an ether).
ConnectCallers == {"k1", "k2"}
AccountLists == {<<>>, <<"0xA">>, <<"0xB">>}
Balances == {0, 1, 2 * EtherScale + 5}

\* preferences.yieldFrequency (ai.ts:49).
Frequencies == {"daily", "weekly", "monthly"}

\* What JSON.parse of the base-strategy answer may yield (part_000:74): the
\* object asked for, that object without its protocols or without its
\* marketConditions, or null.  expectedYield is <<>> for a text parseFloat
\* makes NaN of, else <<y>> for y tenths of a percent; volatility is that
\* of marketConditions.
NoBase == [shape |-> "none", expectedYield |-> <<>>, volatility |-> "none"]
BaseAnswers ==
    [ shape : {"full", "noProtocols", "noMarketConditions"},
      expectedYield : {<<>>, <<52>>}, volatility : {"high", "low"} ]
    \cup {[shape |-> "null", expectedYield |-> <<>>, volatility |-> "none"]}

\* What the insights and the alerts request may be answered with.
RemoteInsights == <<"insight 1", "insight 2", "insight 3">>
RemoteAlerts == <<"alert 1", "alert 2">>
RemoteAdvice == "advice"

\* block.baseFeePerGas is bigint | null; <<>> is null, <<f>> the fee f.
NullFee == <<>>

\* What getBlockNumber may resolve to: a young chain, so that the loop runs
\* past block 0.
Heads == {1}

\* The chain the lifecycle specification reads: block n, when the provider
\* returns it, has a time stamp (seconds) and a base fee (quanta, or null)
\* fixed by n.  Time stamps grow with n, two blocks to the hour.
ChainBlock(n) ==
    [ timestamp     |-> 41400 + 1800 * n,
      baseFeePerGas |-> IF n % 3 = 0 THEN NullFee ELSE <<(n % 3) + 1>> ]

\* What getBlock(n) may resolve to: null (<<>>) or the block.
BlockResponses(n) == {<<>>, <<ChainBlock(n)>>}

\* Blocks the windows of SpecRec are built from: UTC hours 0, 5 and 23,
\* prices 0, 0.5 and 1 gwei at PriceScale 2.
RecBlocks ==
    [ timestamp : {0, 18000, 86399}, baseFeePerGas : {NullFee, <<1>>, <<2>>} ]

\* The window of the end-to-end scenario: two samples in hour 0 at 10 and
\* 12 gwei, one in hour 5 at 6 gwei (hours in UTC).
ScenarioBlocks ==
    << [timestamp |-> 0,     baseFeePerGas |-> <<10 * PriceScale>>],
       [timestamp |-> 1800,  baseFeePerGas |-> <<12 * PriceScale>>],
       [timestamp |-> 18000, baseFeePerGas |-> <<6 * PriceScale>>] >>

\* What getFeeData().gasPrice may resolve to (quanta): in the lifecycle
\* specification and in SpecRec (0, two low prices and 20 gwei).
LifeGasPrices == {3}
GasPrices == {0, 1, 2, 20 * PriceScale}

\* Offsets of the host's local time from UTC, in hours: in the lifecycle
\* specification and in SpecRec.
LifeTzOffsets == {0}
TzOffsets == {-1, 0, 1}

\* Values of IEEE arithmetic that are no finite number.
Infinity == "Infinity"
NegInfinity == "-Infinity"
NaN == "NaN"

(***************************************************************************)
(* Pure functions of updateHistoricalData.                                 *)
(***************************************************************************)
\* Number(block.baseFeePerGas) / 1e9; Number(null) is 0.
FeeToPrice(fee) == IF fee = NullFee THEN 0 ELSE fee[1]

\* The object pushed for a retrieved block (lines 175-179).
ToSample(block) ==
    [ timestamp |-> block.timestamp * 1000,
      price     |-> FeeToPrice(block.baseFeePerGas) ]

\* resp is <<>> when getBlock resolved to null, <<block>> otherwise
\* (lines 174-180): a null block pushes nothing.
PushAlways(blocks, resp) ==
    IF resp = <<>> THEN Append(blocks, [timestamp |-> 0, price |-> 0])
                   ELSE Append(blocks, ToSample(resp[1]))
PushFront(blocks, resp) ==
    IF resp = <<>> THEN blocks ELSE <<ToSample(resp[1])>> \o blocks
PushPricedOnly(blocks, resp) ==
    IF resp = <<>> \/ resp[1].baseFeePerGas = NullFee
    THEN blocks ELSE Append(blocks, ToSample(resp[1]))
PushBlock(blocks, resp) ==
    IF resp = <<>> THEN blocks ELSE Append(blocks, ToSample(resp[1]))

\* this.historicalData = blocks (line 183): the window is replaced.
NewWindowKeepIfEmpty(old, blocks) == IF blocks = <<>> THEN old ELSE blocks
NewWindowMerge(old, blocks) == blocks \o old
NewWindow(old, blocks) == blocks

\* Line 183 seen from an array handed out earlier: the assignment rebinds
\* the field to the new array; the array it referred to is left as it was.
RefillInPlace(held, blocks) ==
    IF held.alias THEN [held EXCEPT !.value = blocks] ELSE held
Rebind(held, blocks) == [held EXCEPT !.alias = FALSE]

\* Lines 170-181 seen from this.historicalData: the samples are pushed into
\* the local array blocks, and the field is not written inside the loop.
WindowSharesBlocks(window, blocks) == blocks
WindowDuringFetch(window, blocks) == window

\* Line 173: the block number of iteration i; nothing keeps it from going
\* below 0.
RequestedBlockClamped(currentBlock, i) ==
    IF currentBlock - i < 0 THEN 0 ELSE currentBlock - i
RequestedBlock(currentBlock, i) == currentBlock - i

\* Line 172: i++ at the end of every iteration, whatever getBlock resolved to.
NextIndexRetry(i, resp) == IF resp = <<>> THEN i ELSE i + 1
NextIndex(i, resp) == i + 1

\* The samples of a sequence of retrieved blocks.
Samples(got) == [k \in 1..Len(got) |-> ToSample(got[k])]

(***************************************************************************)
(* Pure functions of getGasRecommendation (lines 195-227).                 *)
(***************************************************************************)
\* A JavaScript number that may be no finite number.
Fin(n) == [fin |-> TRUE, v |-> n]
NonFin(s) == [fin |-> FALSE, v |-> s]

\* Math.round of a non-negative price p / PriceScale: floor(x + 0.5).
Round(p) == (2 * p + PriceScale) \div (2 * PriceScale)

\* Number(currentFeeData.gasPrice) / 1e9 (line 195).
CurrentGwei(gasPrice) == gasPrice

RECURSIVE MaxPrice(_)
MaxPrice(w) ==
    IF Len(w) = 1 THEN w[1].price
    ELSE LET m == MaxPrice(Tail(w))
         IN  IF w[1].price > m THEN w[1].price ELSE m

RECURSIVE MinPrice(_)
\* Math.min(...prices) of a non-empty window (line 197).
MinPrice(w) ==
    IF Len(w) = 1 THEN w[1].price
    ELSE LET m == MinPrice(Tail(w))
         IN  IF w[1].price < m THEN w[1].price ELSE m

\* Math.min() of no arguments is Infinity.
HistoricalLow(w) == IF w = <<>> THEN NonFin(Infinity) ELSE Fin(MinPrice(w))

RECURSIVE SumPrice(_)
\* reduce((sum, d) => sum + d.price, 0) (line 198).
SumPrice(w) == IF w = <<>> THEN 0 ELSE w[1].price + SumPrice(Tail(w))

\* new Date(timestamp).getHours(): the hour of day in the host's local
\* time, which is UTC plus tz hours (line 203).
UTCHour(ms) == (ms \div 3600000) % 24
GetHoursNoWrap(ms, tz) == ((ms \div 3600000) % 24) + tz
GetHours(ms, tz) == ((ms \div 3600000) + tz) % 24

RECURSIVE Bucket(_, _, _)
\* hourlyAverages[h] after the forEach (lines 201-206).
Bucket(w, h, tz) ==
    IF w = <<>> THEN [sum |-> 0, count |-> 0]
    ELSE LET rest == Bucket(Tail(w), h, tz)
         IN  IF GetHours(w[1].timestamp, tz) = h
             THEN [sum |-> rest.sum + w[1].price, count |-> rest.count + 1]
             ELSE rest

HourlyAverages(w, tz) == [h \in 0..23 |-> Bucket(w, h, tz)]

\* avg < best.avg of line 210, with avg = sum / count, or Infinity for an
\* empty bucket (line 209); best.count = 0 stands for best.avg = Infinity.
AvgLessOrEqual(cur, best) ==
    /\ cur.count > 0
    /\ \/ best.count = 0
       \/ cur.sum * best.count <= best.sum * cur.count
AvgLess(cur, best) ==
    /\ cur.count > 0
    /\ \/ best.count = 0
       \/ cur.sum * best.count < best.sum * cur.count

RECURSIVE BestFrom(_, _, _)
\* The reduce of lines 208-211 from hour h on; best is {hour, avg}.
BestFrom(avgs, h, best) ==
    IF h > 23 THEN best
    ELSE BestFrom(avgs, h + 1,
                  IF AvgLess(avgs[h], best)
                  THEN [hour |-> h, sum |-> avgs[h].sum, count |-> avgs[h].count]
                  ELSE best)

BestHour(w, tz) ==
    BestFrom(HourlyAverages(w, tz), 0, [hour |-> 0, sum |-> 0, count |-> 0]).hour

\* `${bestHour}:00 - ${(bestHour + 1) % 24}:00 UTC` (line 220).
BestTime(bestHour) == [from |-> bestHour, to |-> (bestHour + 1) % 24, zone |-> "UTC"]

\* x.toFixed(1) of the fraction num / den, den > 0, as sign and tenths:
\* the nearest tenth, a tie going away from zero.
ToFixed1(num, den) ==
    LET a == IF num < 0 THEN -num ELSE num
    IN  [ fin    |-> TRUE,
          sign   |-> IF num < 0 THEN "-" ELSE "",
          tenths |-> (20 * a + den) \div (2 * den) ]

\* `${potentialSavings.toFixed(1)}%` with potentialSavings =
\* ((currentGwei - historicalLow) / currentGwei) * 100 (lines 214, 221).
EstimatedSavingsClamped(cur, low) ==
    IF ~low.fin THEN NonFin(NegInfinity)
    ELSE IF cur = 0 THEN (IF low.v = 0 THEN NonFin(NaN) ELSE NonFin(NegInfinity))
    ELSE IF cur < low.v THEN ToFixed1(0, cur)
    ELSE ToFixed1(100 * (cur - low.v), cur)
EstimatedSavings(cur, low) ==
    IF ~low.fin THEN NonFin(NegInfinity)
    ELSE IF cur = 0 THEN (IF low.v = 0 THEN NonFin(NaN) ELSE NonFin(NegInfinity))
    ELSE ToFixed1(100 * (cur - low.v), cur)

\* currentGwei > avgPrice * 1.2 (line 217); avgPrice is NaN for the empty
\* window and every comparison with NaN is false.
ShouldBatchOrEqual(cur, w) ==
    /\ w # <<>>
    /\ 5 * cur * Len(w) >= 6 * SumPrice(w)
ShouldBatch(cur, w) ==
    /\ w # <<>>
    /\ 5 * cur * Len(w) > 6 * SumPrice(w)

BatchText == "Batching transactions recommended for optimal gas savings"
IndividualText == "Individual transactions acceptable at current gas prices"

RoundNum(x) == IF x.fin THEN Fin(Round(x.v)) ELSE x

\* The object returned at lines 219-227 for window w, fee read gasPrice and
\* host offset tz.
Recommendation(w, gasPrice, tz) ==
    LET currentGwei == CurrentGwei(gasPrice)
        historicalLow == HistoricalLow(w)
        bestHour == BestHour(w, tz)
    IN  [ bestTime               |-> BestTime(bestHour),
          estimatedSavings       |-> EstimatedSavings(currentGwei, historicalLow),
          currentGwei            |-> Round(currentGwei),
          historicalLow          |-> RoundNum(historicalLow),
          batchingRecommendation |-> IF ShouldBatch(currentGwei, w)
                                     THEN BatchText ELSE IndividualText ]

(***************************************************************************)
(* State.                                                                  *)
(***************************************************************************)
VARIABLES
    provider,        \* GasOptimizer.provider (line 148)
    historicalData,  \* GasOptimizer.historicalData (line 147): the window
    init,            \* per caller, the frame of its initialize in flight
    rec,             \* the getGasRecommendation in flight, if any
    src,             \* history: the blocks the window was built from
    snapshot,        \* the array a caller of getHistoricalData still holds
    outcome,         \* what the last step returned to its caller, if anything
    wallet,          \* the state of the wallet store (part_001, lines 14-17)
    connect,         \* per caller, the frame of its connect in flight
    strategy,        \* the frame of generateYieldStrategy (ai.ts:54-111)
    driver           \* the AdvancedReporting component and its timers

vars == <<provider, historicalData, init, rec, src, snapshot, outcome,
          wallet, connect, strategy, driver>>

\* The state outside the gas optimizer and its driver, and outside the
\* gas optimizer.
outside == <<wallet, connect, strategy>>
elsewhere == <<wallet, connect, strategy, driver>>
\* The state of the gas optimizer and its driver.
sampler == <<provider, historicalData, init, rec, src, snapshot, driver>>

\* The frame of updateHistoricalData: where it is suspended, and its locals
\* currentBlock, i and blocks.  History fields: got is the blocks retrieved,
\* requested the block numbers passed to getBlock so far, overlapped tells
\* whether another initialize was in flight at some point of this one and
\* passed is the provider the call was given.
Idle ==
    [ pc |-> "idle", currentBlock |-> 0, i |-> 0, blocks |-> <<>>, got |-> <<>>,
      requested |-> <<>>, overlapped |-> FALSE,
      passed |-> NoProvider ]

\* No array returned by getHistoricalData is held.  A held array has its
\* contents (value) and alias: whether it is still the object that
\* this.historicalData refers to.
NoSnapshot == [taken |-> FALSE, alias |-> FALSE, value |-> <<>>]

NoOutcome == [op |-> "none"]

UninitializedError == "Gas optimizer not initialized"
ProviderError == "provider error"

\* initialize returned normally to caller c.  History fields: readFailed
\* tells whether a chain read of the call was rejected, attempts is the
\* number of getBlock calls it made, retrieved the blocks they resolved to
\* and previousLength the length of the window when the call took its last
\* step; head, requested, overlapped and passed are those of the call's
\* frame.
InitReturned(c, readFailed, attempts, retrieved) ==
    [ op |-> "initialize", caller |-> c, kind |-> "ok",
      readFailed |-> readFailed, attempts |-> attempts, retrieved |-> retrieved,
      previousLength |-> Len(historicalData),
      head |-> init[c].currentBlock, requested |-> init[c].requested,
      overlapped |-> init[c].overlapped, passed |-> init[c].passed ]

\* getGasRecommendation rejected.  phase is "call" for the step up to the
\* await and "resume" for the step after it; feeRead tells how getFeeData
\* settled.
RecThrewAtCall(error) ==
    [ op |-> "getGasRecommendation", phase |-> "call", kind |-> "error",
      error |-> error ]
RecThrewAtResume(error) ==
    [ op |-> "getGasRecommendation", phase |-> "resume", feeRead |-> "rejected",
      kind |-> "error", error |-> error ]

\* Lines 14-17 and 40-45: the store as created and as disconnect leaves it.
\* A balance is the text of a decimal number, held as the sequence of its
\* integer part and, after the point, its digits: <<0>> is '0'.
Disconnected ==
    [address |-> "null", balance |-> <<0>>, isConnected |-> FALSE, provider |-> "null"]

\* The frame of connect: where it is suspended and its local accounts (the
\* local provider is the frame's own).  History field: disconnected tells
\* whether disconnect ran while the call was in flight.
ConnectIdle == [pc |-> "idle", accounts |-> <<>>, disconnected |-> FALSE]

\* The frame of generateYieldStrategy: where it is suspended, its argument
\* preferences (autoCompounding, yieldFrequency) and its locals baseStrategy
\* and insights.  History field: issued is the remote requests made so far
\* and failed the steps whose request was rejected or answered with text
\* that is no JSON.
StrategyIdle ==
    [ pc |-> "idle", auto |-> FALSE, frequency |-> "none", base |-> NoBase,
      insights |-> <<>>, issued |-> <<>>, failed |-> {} ]

\* The state of a fresh AdvancedReporting instance (lines 63-65).
FreshView == [gasData |-> <<>>, gasRecommendation |-> <<>>, isLoading |-> TRUE]

\* No updateGasData in flight.
NoUpdate == [owner |-> "none", historicalData |-> <<>>]

\* AdvancedReporting before its first mount.  current is the mount whose
\* instance is on screen, pc where the initializer of each mount stands,
\* timers the mounts whose interval is live, update the updateGasData in
\* flight (its mount and its local historicalData of line 93) and view the
\* state of the instance on screen.  History field: last is the last event
\* of the component.
Unmounted ==
    [ mounted |-> FALSE, current |-> "none",
      pc |-> [c \in Callers |-> "unused"], timers |-> {},
      update |-> NoUpdate, view |-> FreshView,
      last |-> [event |-> "none", mount |-> "none"] ]

\* The rest of the program before anything ran: the store as created, no
\* connect, no strategy call, the component not mounted.
InitElsewhere ==
    /\ wallet = Disconnected
    /\ connect = [k \in ConnectCallers |-> ConnectIdle]
    /\ strategy = StrategyIdle
    /\ driver = Unmounted

\* The shape of the state.
TypeOK ==
    /\ provider \in Providers \cup {NoProvider}
    /\ \A k \in 1..Len(historicalData) :
          DOMAIN historicalData[k] = {"timestamp", "price"}
    /\ \A c \in Callers :
          /\ init[c].pc \in {"idle", "awaitBlockNumber", "awaitBlock"}
          /\ init[c].i \in 0..FetchCount
    /\ rec \in {"idle", "awaitFeeData"}
    /\ snapshot.taken \in BOOLEAN /\ snapshot.alias \in BOOLEAN
    /\ outcome.op \in {"none", "initialize", "getGasRecommendation",
                        "getHistoricalData", "connect", "disconnect",
                        "generateYieldStrategy", "mount", "unmount",
                        "updateGasData"}
    /\ wallet.isConnected \in BOOLEAN
    /\ \A k \in ConnectCallers :
          connect[k].pc \in {"idle", "awaitAccounts", "awaitBalance"}

Init ==
    /\ provider = NoProvider
    /\ historicalData = <<>>
    /\ init = [c \in Callers |-> Idle]
    /\ rec = "idle"
    /\ src = <<>>
    /\ snapshot = NoSnapshot
    /\ outcome = NoOutcome
    /\ InitElsewhere

(***************************************************************************)
(* initialize / updateHistoricalData (lines 159-187).                      *)
(***************************************************************************)
\* Lines 160-168: store the provider, enter updateHistoricalData and suspend
\* at the await of getBlockNumber.  (The guard of line 165 cannot fail here:
\* p is a BrowserProvider.)
InitCall(c, p) ==
    /\ init[c].pc = "idle"
    /\ provider' = p
    /\ LET others == {d \in Callers \ {c} : init[d].pc # "idle"}
       IN  init' = [d \in Callers |->
                      IF d = c
                      THEN [Idle EXCEPT !.pc = "awaitBlockNumber",
                                        !.overlapped = (others # {}),
                                        !.passed = p]
                      ELSE IF d \in others
                      THEN [init[d] EXCEPT !.overlapped = TRUE]
                      ELSE init[d]]
    /\ outcome' = NoOutcome
    /\ UNCHANGED <<historicalData, rec, src, snapshot>>

\* Lines 168-173: getBlockNumber resolved to h; the loop starts and suspends
\* at the first getBlock.
InitHeadResolve(c, h) ==
    /\ init[c].pc = "awaitBlockNumber"
    /\ init' = [init EXCEPT ![c] =
                  [pc |-> "awaitBlock", currentBlock |-> h, i |-> 0,
                   blocks |-> <<>>, got |-> <<>>,
                   requested |-> <<RequestedBlock(h, 0)>>,
                   overlapped |-> init[c].overlapped,
                   passed |-> init[c].passed]]
    /\ outcome' = NoOutcome
    /\ UNCHANGED <<provider, historicalData, rec, src, snapshot>>

\* Lines 184-186: a rejected chain read lands in the catch block, which logs
\* and falls off the end: updateHistoricalData and initialize return normally.
CatchKeepsPartial(c) ==
    /\ init[c].pc \in {"awaitBlockNumber", "awaitBlock"}
    /\ init' = [init EXCEPT ![c] = Idle]
    /\ historicalData' = init[c].blocks
    /\ outcome' = InitReturned(c, TRUE,
                     init[c].i + (IF init[c].pc = "awaitBlock" THEN 1 ELSE 0),
                     init[c].got)
    /\ UNCHANGED <<provider, rec, src, snapshot>>
Catch(c) ==
    /\ init[c].pc \in {"awaitBlockNumber", "awaitBlock"}
    /\ init' = [init EXCEPT ![c] = Idle]
    /\ outcome' = InitReturned(c, TRUE,
                     init[c].i + (IF init[c].pc = "awaitBlock" THEN 1 ELSE 0),
                     init[c].got)
    /\ UNCHANGED <<provider, historicalData, rec, src, snapshot>>

\* getBlockNumber rejected (line 168).
InitHeadReject(c) ==
    /\ init[c].pc = "awaitBlockNumber"
    /\ Catch(c)

\* Lines 173-183: getBlock(currentBlock - i) resolved to resp (<<>> is null);
\* the block is pushed, i incremented, and either the next getBlock is
\* awaited or the loop ends and the window is replaced.
InitBlockResolve(c) ==
    /\ init[c].pc = "awaitBlock"
    /\ \E resp \in BlockResponses(RequestedBlock(init[c].currentBlock, init[c].i)) :
       LET blocks == PushBlock(init[c].blocks, resp)
           got    == init[c].got \o resp
           i      == NextIndex(init[c].i, resp)
       IN  IF i < FetchCount
           THEN /\ init' = [init EXCEPT
                              ![c].blocks = blocks, ![c].got = got, ![c].i = i,
                              ![c].requested =
                                  Append(@, RequestedBlock(init[c].currentBlock, i))]
                /\ historicalData' = WindowDuringFetch(historicalData, blocks)
                /\ outcome' = NoOutcome
                /\ UNCHANGED <<src, snapshot>>
           ELSE /\ historicalData' = NewWindow(historicalData, blocks)
                /\ snapshot' = Rebind(snapshot, blocks)
                /\ src' = got
                /\ init' = [init EXCEPT ![c] = Idle]
                /\ outcome' = InitReturned(c, FALSE, Len(init[c].requested), got)
    /\ UNCHANGED <<provider, rec>>

\* getBlock rejected (line 173).
InitBlockReject(c) ==
    /\ init[c].pc = "awaitBlock"
    /\ Catch(c)

(***************************************************************************)
(* getGasRecommendation (lines 189-228).                                   *)
(***************************************************************************)
\* Line 190.
NotInitializedProviderOnly == provider = NoProvider
NotInitialized == provider = NoProvider \/ Len(historicalData) = 0

\* Lines 190-194: the guard, then the await of getFeeData.
RecCall ==
    /\ rec = "idle"
    /\ IF NotInitialized
       THEN /\ outcome' = RecThrewAtCall(UninitializedError)
            /\ rec' = rec
       ELSE /\ outcome' = [ op |-> "getGasRecommendation", phase |-> "call",
                            kind |-> "pending" ]
            /\ rec' = "awaitFeeData"
    /\ UNCHANGED <<provider, historicalData, init, src, snapshot>>

\* Lines 195-227: getFeeData resolved; the rest of the function runs without
\* suspending, on the window as it is now, in a host at offset tz.  History
\* field: hourlyAverages is the local bucket array of lines 201-206.
RecResolve(gasPrice, tz) ==
    /\ rec = "awaitFeeData"
    /\ rec' = "idle"
    /\ outcome' = [ op |-> "getGasRecommendation", phase |-> "resume",
                    feeRead |-> "resolved", kind |-> "ok",
                    value |-> Recommendation(historicalData, gasPrice, tz),
                    gasPrice |-> gasPrice, tz |-> tz,
                    hourlyAverages |-> HourlyAverages(historicalData, tz) ]
    /\ UNCHANGED <<provider, historicalData, init, src, snapshot>>

\* Line 194: getFeeData rejected; nothing catches it.
RecRejectRetry ==
    /\ rec = "awaitFeeData"
    /\ rec' = "awaitFeeData"
    /\ outcome' = RecThrewAtResume(ProviderError)
    /\ UNCHANGED <<provider, historicalData, init, src, snapshot>>
RecReject ==
    /\ rec = "awaitFeeData"
    /\ rec' = "idle"
    /\ outcome' = RecThrewAtResume(ProviderError)
    /\ UNCHANGED <<provider, historicalData, init, src, snapshot>>

(***************************************************************************)
(* getHistoricalData (lines 230-232).                                      *)
(***************************************************************************)
GetHistoricalDataThrows ==
    /\ outcome' = IF Len(historicalData) = 0
                  THEN [op |-> "getHistoricalData", kind |-> "error",
                        error |-> UninitializedError]
                  ELSE [op |-> "getHistoricalData", kind |-> "ok",
                        value |-> historicalData]
    /\ UNCHANGED <<provider, historicalData, init, rec, src, snapshot>>
GetHistoricalDataDrains ==
    /\ outcome' = [op |-> "getHistoricalData", kind |-> "ok", value |-> historicalData]
    /\ historicalData' = <<>>
    /\ UNCHANGED <<provider, init, rec, src, snapshot>>
GetHistoricalData ==
    /\ outcome' = [op |-> "getHistoricalData", kind |-> "ok", value |-> historicalData]
    /\ UNCHANGED <<provider, historicalData, init, rec, src, snapshot>>

\* Line 231 again, the caller keeping the array it was handed: what is
\* returned is this.historicalData itself, not a copy.
GetHistoricalDataHeld ==
    /\ outcome' = [op |-> "getHistoricalData", kind |-> "ok", value |-> historicalData]
    /\ snapshot' = [taken |-> TRUE, alias |-> TRUE, value |-> historicalData]
    /\ UNCHANGED <<provider, historicalData, init, rec, src>>

(***************************************************************************)
(* AdvancedReporting (src/src/components/AdvancedReporting.tsx:62-103).    *)
(* A mount is named by the caller frame its initialize runs in.  One       *)
(* updateGasData is in flight at a time.                                   *)
(***************************************************************************)
\* The order in which the mounts take the caller frames.
MountOrder == <<"A", "B">>

\* The mount that comes next, if any is left.
NextMounts ==
    {MountOrder[n] : n \in {m \in 1..Len(MountOrder) :
        /\ driver.pc[MountOrder[m]] = "unused"
        /\ \A j \in 1..(m - 1) : driver.pc[MountOrder[j]] # "unused"}}

\* Lines 67-88: what the effect hands React as its cleanup is the value of
\* the arrow function of line 67, which returns nothing: the function of
\* line 80 is the result of the promise of initializeGasOptimizer, which
\* line 87 drops.  Unmounting mount c therefore clears no interval.
TimersCleared(timers, c) == timers \ {c}
TimersAfterUnmount(timers, c) == timers

\* setState of an instance that is no longer on screen changes nothing.
OnScreen(c) == driver.mounted /\ driver.current = c

\* Lines 96-97, 101: updateGasData of mount c got its recommendation.
ViewAfterUpdate(c, data, recommendation) ==
    IF OnScreen(c)
    THEN [gasData |-> data, gasRecommendation |-> <<recommendation>>,
          isLoading |-> FALSE]
    ELSE driver.view

\* Lines 98-101: updateGasData of mount c caught an error.
ViewAfterError(c) ==
    IF OnScreen(c) THEN [driver.view EXCEPT !.isLoading = FALSE] ELSE driver.view

\* Lines 67-73, 87: the component mounts with an injected wallet; its effect
\* runs initializeGasOptimizer up to the await of initialize.
Mount(c, p) ==
    /\ ~driver.mounted
    /\ c \in NextMounts
    /\ InitCall(c, p)
    /\ driver' = [driver EXCEPT !.mounted = TRUE, !.current = c,
                                !.pc[c] = "awaitInitialize", !.view = FreshView,
                                !.last = [event |-> "mount", mount |-> c]]

\* Line 69: without window.ethereum the initializer returns at once.
MountWithoutWallet(c) ==
    /\ ~driver.mounted
    /\ c \in NextMounts
    /\ driver' = [driver EXCEPT !.mounted = TRUE, !.current = c,
                                !.pc[c] = "ended", !.view = FreshView,
                                !.last = [event |-> "mount", mount |-> c]]
    /\ outcome' = [op |-> "mount", kind |-> "ok"]
    /\ UNCHANGED <<provider, historicalData, init, rec, src, snapshot>>

\* Lines 92-94 and 98-102: updateGasData on behalf of mount c reads the
\* window and calls getGasRecommendation; when that call throws at its
\* guard the error is logged and updateGasData is over.
UpdateGasData(c, event) ==
    /\ driver.update = NoUpdate
    /\ RecCall
    /\ driver' = [driver EXCEPT
                    !.update = IF NotInitialized THEN NoUpdate
                               ELSE [owner |-> c, historicalData |-> historicalData],
                    !.view = IF NotInitialized THEN ViewAfterError(c) ELSE @,
                    !.pc[c] = IF event = "initial" THEN "awaitUpdate" ELSE @,
                    !.last = [event |-> event, mount |-> c]]

\* Lines 73-76: initialize of mount c returned (it does not throw) and
\* updateGasData is called for the first time.
FirstUpdate(c) ==
    /\ driver.pc[c] = "awaitInitialize"
    /\ init[c].pc = "idle"
    /\ UpdateGasData(c, "initial")

\* Lines 94-97, 100-102: getGasRecommendation resolved.
UpdateResolve(gasPrice, tz) ==
    /\ driver.update # NoUpdate
    /\ RecResolve(gasPrice, tz)
    /\ driver' = [driver EXCEPT
                    !.update = NoUpdate,
                    !.view = ViewAfterUpdate(driver.update.owner,
                                             driver.update.historicalData,
                                             Recommendation(historicalData, gasPrice, tz))]

\* Lines 94, 98-102: getGasRecommendation rejected.
UpdateReject ==
    /\ driver.update # NoUpdate
    /\ RecReject
    /\ driver' = [driver EXCEPT !.update = NoUpdate,
                                !.view = ViewAfterError(driver.update.owner)]

\* Lines 76-80: the first updateGasData of mount c is over; the interval is
\* started, whether or not the component is still mounted.
SetInterval(c) ==
    /\ driver.pc[c] = "awaitUpdate"
    /\ driver.update.owner # c
    /\ driver' = [driver EXCEPT !.pc[c] = "running", !.timers = @ \cup {c},
                                !.last = [event |-> "setInterval", mount |-> c]]
    /\ outcome' = NoOutcome
    /\ UNCHANGED <<provider, historicalData, init, rec, src, snapshot>>

\* Line 79: the interval of mount c fires.
TickInitializes(c) ==
    /\ c \in driver.timers
    /\ InitCall(c, provider)
    /\ driver' = [driver EXCEPT !.last = [event |-> "tick", mount |-> c]]
Tick(c) ==
    /\ c \in driver.timers
    /\ UpdateGasData(c, "tick")

\* The component unmounts.
Unmount ==
    /\ driver.mounted
    /\ driver' = [driver EXCEPT
                    !.mounted = FALSE,
                    !.timers = TimersAfterUnmount(@, driver.current),
                    !.last = [event |-> "unmount", mount |-> driver.current]]
    /\ outcome' = [op |-> "unmount", kind |-> "ok"]
    /\ UNCHANGED <<provider, historicalData, init, rec, src, snapshot>>

(***************************************************************************)
(* The wallet store (src/unnamed/part_001).                                *)
(***************************************************************************)
\* ethers.formatEther (line 24) of a balance of q sub-units: the integer
\* part, a point and the fraction, never without a digit after the point.
FormatEther(q) == <<q \div EtherScale, q % EtherScale>>

\* Lines 26-31: the store after a connect of frame k got accounts and q.
Connected(k, accounts, q) ==
    [ address |-> accounts[1], balance |-> FormatEther(q), isConnected |-> TRUE,
      provider |-> k ]

\* connect returned (it never throws): opened tells whether the download
\* page was opened, stored whether the store was set, and balance is <<>>
\* or the balance that was read.
ConnectReturned(k, opened, stored, balance) ==
    [ op |-> "connect", caller |-> k, kind |-> "ok", opened |-> opened,
      stored |-> stored, accounts |-> connect[k].accounts, balance |-> balance,
      disconnected |-> connect[k].disconnected ]

\* Lines 19-22 and 35-37: without an injected wallet the download page is
\* opened; with one, a provider is made and eth_requestAccounts awaited.
ConnectCall(k, injected) ==
    /\ connect[k].pc = "idle"
    /\ IF injected
       THEN /\ connect' = [connect EXCEPT ![k] = [ConnectIdle EXCEPT !.pc = "awaitAccounts"]]
            /\ outcome' = NoOutcome
       ELSE /\ connect' = connect
            /\ outcome' = ConnectReturned(k, TRUE, FALSE, <<>>)
    /\ wallet' = wallet

\* Lines 22-23: the accounts arrived; getBalance(accounts[0]) is awaited.
ConnectAccountsResolve(k, accounts) ==
    /\ connect[k].pc = "awaitAccounts"
    /\ connect' = [connect EXCEPT ![k].pc = "awaitBalance", ![k].accounts = accounts]
    /\ outcome' = NoOutcome
    /\ wallet' = wallet

\* Lines 32-34: a rejected request lands in the catch block, which logs.
ConnectCatch(k) ==
    /\ connect' = [connect EXCEPT ![k] = ConnectIdle]
    /\ outcome' = ConnectReturned(k, FALSE, FALSE, <<>>)
    /\ wallet' = wallet

\* eth_requestAccounts rejected (line 22).
ConnectAccountsReject(k) ==
    /\ connect[k].pc = "awaitAccounts"
    /\ ConnectCatch(k)

\* Lines 23-31: the balance arrived and the store is set.  getBalance of
\* an undefined address (no account) does not resolve.
ConnectBalanceResolve(k, q) ==
    /\ connect[k].pc = "awaitBalance"
    /\ connect[k].accounts # <<>>
    /\ wallet' = Connected(k, connect[k].accounts, q)
    /\ connect' = [connect EXCEPT ![k] = ConnectIdle]
    /\ outcome' = ConnectReturned(k, FALSE, TRUE, <<q>>)

\* getBalance rejected (line 23).
ConnectBalanceReject(k) ==
    /\ connect[k].pc = "awaitBalance"
    /\ ConnectCatch(k)

\* Lines 39-46: the store is reset; a connect in flight is not told.
DisconnectKeepsBalance ==
    /\ wallet' = [Disconnected EXCEPT !.balance = wallet.balance]
    /\ connect' = [k \in ConnectCallers |->
                     IF connect[k].pc = "idle" THEN connect[k]
                     ELSE [connect[k] EXCEPT !.disconnected = TRUE]]
    /\ outcome' = [op |-> "disconnect", kind |-> "ok"]
DisconnectCancels ==
    /\ wallet' = Disconnected
    /\ connect' = [k \in ConnectCallers |-> ConnectIdle]
    /\ outcome' = [op |-> "disconnect", kind |-> "ok"]
Disconnect ==
    /\ wallet' = Disconnected
    /\ connect' = [k \in ConnectCallers |->
                     IF connect[k].pc = "idle" THEN connect[k]
                     ELSE [connect[k] EXCEPT !.disconnected = TRUE]]
    /\ outcome' = [op |-> "disconnect", kind |-> "ok"]

(***************************************************************************)
(* generateYieldStrategy (src/src/lib/ai.ts:54-111) and the agent methods  *)
(* it awaits (src/unnamed/part_000:48-129).                                *)
(***************************************************************************)
\* part_000:106-109 and 124-127: the lists returned when the request or the
\* parsing of its answer fails.
FallbackInsights ==
    << "Market analysis temporarily unavailable",
       "Please check back later for updated insights" >>
FallbackAlerts ==
    << "Risk assessment temporarily unavailable",
       "Monitor protocol status for updates" >>

\* part_000:101-110: getMarketInsights never rejects.
InsightsNoFallback(answered) == IF answered THEN RemoteInsights ELSE <<>>
InsightsOf(answered) == IF answered THEN RemoteInsights ELSE FallbackInsights
\* part_000:119-128: getRiskAlerts, once its request is made, never rejects.
AlertsOf(answered) == IF answered THEN RemoteAlerts ELSE FallbackAlerts

StrategyParseError == "Failed to generate valid strategy data"
StrategyRemoteError == "Gemini API error"
StrategyTypeError == "TypeError"

\* ai.ts:67-68, 79: estimatedAPY, compoundedAPY.toFixed(1).
EstimatedAPY(base, auto) ==
    IF base.expectedYield = <<>> THEN NonFin(NaN)
    ELSE IF auto THEN ToFixed1(12 * base.expectedYield[1], 100)
    ELSE ToFixed1(base.expectedYield[1], 10)

\* ai.ts:71-104: the strategy returned (the fields that depend on the
\* steps and on the arguments; the yields per period, the Sharpe ratio and
\* the rebalancing dates are derived from the same numbers and the clock).
StrategyValue(f, alerts) ==
    [ recommendation |-> RemoteAdvice,
      insights |-> f.insights,
      alerts |-> alerts,
      autoCompounding |->
          [ enabled |-> f.auto, frequency |-> f.frequency,
            estimatedAPY |-> EstimatedAPY(f.base, f.auto) ],
      marketVolatility |-> f.base.volatility ]

\* generateYieldStrategy settled.  History fields: issued, failed and base
\* are those of the call's frame.
StrategyRejected(f, error) ==
    [ op |-> "generateYieldStrategy", kind |-> "error", error |-> error,
      issued |-> f.issued, failed |-> f.failed, base |-> f.base.shape ]
StrategyReturned(f, value) ==
    [ op |-> "generateYieldStrategy", kind |-> "ok", value |-> value,
      issued |-> f.issued, failed |-> f.failed, base |-> f.base.shape ]

\* ai.ts:55-57: the call, up to the await of generateBaseStrategy, whose
\* request is made at part_000:73.
StrategyCall(auto, frequency) ==
    /\ strategy.pc = "idle"
    /\ strategy' = [StrategyIdle EXCEPT !.pc = "awaitBase", !.auto = auto,
                                        !.frequency = frequency,
                                        !.issued = <<"base">>]
    /\ outcome' = NoOutcome

\* part_000:73-74, ai.ts:57-60: the base answer was parsed to base; the
\* advice prompt is built from it (part_000:82-86, which throws on null)
\* and its request made.
StrategyBaseResolve(base) ==
    /\ strategy.pc = "awaitBase"
    /\ LET f == [strategy EXCEPT !.base = base]
       IN  IF base.shape = "null"
           THEN /\ strategy' = StrategyIdle
                /\ outcome' = StrategyRejected(f, StrategyTypeError)
           ELSE /\ strategy' = [f EXCEPT !.pc = "awaitAdvice",
                                         !.issued = Append(@, "advice")]
                /\ outcome' = NoOutcome

\* part_000:75-78, ai.ts:107-110: the base request was rejected or its
\* answer is no JSON; the call rejects.
StrategyBaseFail ==
    /\ strategy.pc = "awaitBase"
    /\ strategy' = StrategyIdle
    /\ outcome' = StrategyRejected([strategy EXCEPT !.failed = @ \cup {"base"}],
                                   StrategyParseError)

\* ai.ts:60-63: the advice arrived; the insights request is made.
StrategyAdviceResolve ==
    /\ strategy.pc = "awaitAdvice"
    /\ strategy' = [strategy EXCEPT !.pc = "awaitInsights",
                                    !.issued = Append(@, "insights")]
    /\ outcome' = NoOutcome

\* part_000:42-45, 92, ai.ts:107-110: the advice request was rejected; the
\* call rejects.
StrategyAdviceReject ==
    /\ strategy.pc = "awaitAdvice"
    /\ strategy' = StrategyIdle
    /\ outcome' = StrategyRejected([strategy EXCEPT !.failed = @ \cup {"advice"}],
                                   StrategyRemoteError)

\* ai.ts:63-64: getMarketInsights settled (answered: with a JSON list);
\* getRiskAlerts is called with baseStrategy.protocols, and joins them
\* (part_000:114) before its try block and its request.
StrategyInsightsSettle(answered) ==
    /\ strategy.pc = "awaitInsights"
    /\ LET f == [strategy EXCEPT
                    !.insights = InsightsOf(answered),
                    !.failed = IF answered THEN @ ELSE @ \cup {"insights"}]
       IN  IF f.base.shape = "noProtocols"
           THEN /\ strategy' = StrategyIdle
                /\ outcome' = StrategyRejected(f, StrategyTypeError)
           ELSE /\ strategy' = [f EXCEPT !.pc = "awaitAlerts",
                                         !.issued = Append(@, "alerts")]
                /\ outcome' = NoOutcome

\* ai.ts:64-106: getRiskAlerts settled; the strategy is put together, which
\* reads baseStrategy.marketConditions.volatility (line 86).
StrategyAlertsSettle(answered) ==
    /\ strategy.pc = "awaitAlerts"
    /\ LET f == [strategy EXCEPT
                    !.failed = IF answered THEN @ ELSE @ \cup {"alerts"}]
       IN  /\ strategy' = StrategyIdle
           /\ outcome' = IF f.base.shape = "noMarketConditions"
                         THEN StrategyRejected(f, StrategyTypeError)
                         ELSE StrategyReturned(f, StrategyValue(f, AlertsOf(answered)))

(***************************************************************************)
(* Specifications.                                                         *)
(***************************************************************************)
\* The lifecycle: initialize calls of the callers, overlapping or not, and
\* the two readers at any point between their steps.
Next ==
    \/ \E c \in Callers, p \in Providers : InitCall(c, p) /\ UNCHANGED elsewhere
    \/ \E c \in Callers, h \in Heads : InitHeadResolve(c, h) /\ UNCHANGED elsewhere
    \/ \E c \in Callers : InitHeadReject(c) /\ UNCHANGED elsewhere
    \/ \E c \in Callers : InitBlockResolve(c) /\ UNCHANGED elsewhere
    \/ \E c \in Callers : InitBlockReject(c) /\ UNCHANGED elsewhere
    \/ RecCall /\ UNCHANGED elsewhere
    \/ \E g \in LifeGasPrices, tz \in LifeTzOffsets :
          RecResolve(g, tz) /\ UNCHANGED elsewhere
    \/ RecReject /\ UNCHANGED elsewhere
    \/ GetHistoricalData /\ UNCHANGED elsewhere

Spec == Init /\ [][Next]_vars

\* One caller refreshing the window again and again while another part of
\* the program holds on to the arrays getHistoricalData handed out.
NextSnap ==
    \/ \E p \in Providers : InitCall(SnapCaller, p) /\ UNCHANGED elsewhere
    \/ \E h \in Heads : InitHeadResolve(SnapCaller, h) /\ UNCHANGED elsewhere
    \/ InitHeadReject(SnapCaller) /\ UNCHANGED elsewhere
    \/ InitBlockResolve(SnapCaller) /\ UNCHANGED elsewhere
    \/ InitBlockReject(SnapCaller) /\ UNCHANGED elsewhere
    \/ GetHistoricalDataHeld /\ UNCHANGED elsewhere

SpecSnap == Init /\ [][NextSnap]_vars

\* The gas optimizer as AdvancedReporting drives it: mounts and unmounts,
\* the chain reads of the initialize of each mount, and the intervals.
NextDriver ==
    \/ \E c \in Callers, p \in Providers : Mount(c, p) /\ UNCHANGED outside
    \/ \E c \in Callers : MountWithoutWallet(c) /\ UNCHANGED outside
    \/ \E c \in Callers, h \in Heads :
          InitHeadResolve(c, h) /\ UNCHANGED elsewhere
    \/ \E c \in Callers : InitHeadReject(c) /\ UNCHANGED elsewhere
    \/ \E c \in Callers : InitBlockResolve(c) /\ UNCHANGED elsewhere
    \/ \E c \in Callers : InitBlockReject(c) /\ UNCHANGED elsewhere
    \/ \E c \in Callers : FirstUpdate(c) /\ UNCHANGED outside
    \/ \E g \in LifeGasPrices, tz \in LifeTzOffsets :
          UpdateResolve(g, tz) /\ UNCHANGED outside
    \/ UpdateReject /\ UNCHANGED outside
    \/ \E c \in Callers : SetInterval(c) /\ UNCHANGED outside
    \/ \E c \in Callers : Tick(c) /\ UNCHANGED outside
    \/ Unmount /\ UNCHANGED outside

SpecDriver == Init /\ [][NextDriver]_vars

\* The wallet store: connect calls of two callers, overlapping or not, and
\* disconnect at any point between their steps.
NextWallet ==
    \/ \E k \in ConnectCallers, injected \in BOOLEAN :
          ConnectCall(k, injected) /\ UNCHANGED <<sampler, strategy>>
    \/ \E k \in ConnectCallers, accounts \in AccountLists :
          ConnectAccountsResolve(k, accounts) /\ UNCHANGED <<sampler, strategy>>
    \/ \E k \in ConnectCallers :
          ConnectAccountsReject(k) /\ UNCHANGED <<sampler, strategy>>
    \/ \E k \in ConnectCallers, q \in Balances :
          ConnectBalanceResolve(k, q) /\ UNCHANGED <<sampler, strategy>>
    \/ \E k \in ConnectCallers :
          ConnectBalanceReject(k) /\ UNCHANGED <<sampler, strategy>>
    \/ Disconnect /\ UNCHANGED <<sampler, strategy>>

SpecWallet == Init /\ [][NextWallet]_vars

\* generateYieldStrategy, one call after the other, for every way its four
\* remote steps may settle.
NextStrategy ==
    \/ \E auto \in BOOLEAN, frequency \in Frequencies :
          StrategyCall(auto, frequency) /\ UNCHANGED <<sampler, wallet, connect>>
    \/ \E base \in BaseAnswers :
          StrategyBaseResolve(base) /\ UNCHANGED <<sampler, wallet, connect>>
    \/ StrategyBaseFail /\ UNCHANGED <<sampler, wallet, connect>>
    \/ StrategyAdviceResolve /\ UNCHANGED <<sampler, wallet, connect>>
    \/ StrategyAdviceReject /\ UNCHANGED <<sampler, wallet, connect>>
    \/ \E answered \in BOOLEAN :
          StrategyInsightsSettle(answered) /\ UNCHANGED <<sampler, wallet, connect>>
    \/ \E answered \in BOOLEAN :
          StrategyAlertsSettle(answered) /\ UNCHANGED <<sampler, wallet, connect>>

SpecStrategy == Init /\ [][NextStrategy]_vars

\* The recommendation on its own: every window of up to MaxWindow samples
\* and the window of the end-to-end scenario, as an initialize leaves them
\* behind, then the readers, for every fee read and host offset.
RECURSIVE SeqsUpTo(_, _)
SeqsUpTo(S, n) ==
    IF n = 0 THEN {<<>>}
    ELSE LET shorter == SeqsUpTo(S, n - 1)
         IN  shorter \cup {Append(q, x) : q \in shorter, x \in S}

InitRec ==
    /\ provider = "p1"
    /\ src \in SeqsUpTo(RecBlocks, MaxWindow) \cup {ScenarioBlocks}
    /\ historicalData = Samples(src)
    /\ init = [c \in Callers |-> Idle]
    /\ rec = "idle"
    /\ snapshot = NoSnapshot
    /\ outcome = NoOutcome
    /\ InitElsewhere

NextRec ==
    \/ RecCall /\ UNCHANGED elsewhere
    \/ \E g \in GasPrices, tz \in TzOffsets : RecResolve(g, tz) /\ UNCHANGED elsewhere
    \/ RecReject /\ UNCHANGED elsewhere
    \/ GetHistoricalData /\ UNCHANGED elsewhere

SpecRec == InitRec /\ [][NextRec]_vars

(***************************************************************************)
(* Properties.                                                             *)
(***************************************************************************)
\* The last step was a getGasRecommendation call, up to its guard or await.
RecCalled == outcome.op = "getGasRecommendation" /\ outcome.phase = "call"
\* The last step was the continuation of getGasRecommendation after the await.
RecResumed == outcome.op = "getGasRecommendation" /\ outcome.phase = "resume"
\* The last step returned from initialize.
InitEnded == outcome.op = "initialize"
\* The fields of a recommendation (lines 219-227).
RecommendationFields ==
    {"bestTime", "estimatedSavings", "currentGwei", "historicalLow",
     "batchingRecommendation"}

\* C1: a getGasRecommendation call made while the window is empty or no
\* provider is set throws the uninitialized error: it issues no fee read and
\* hands no value, complete or partial, to its caller.
C1_UninitializedCallFails ==
    (RecCalled /\ (provider = NoProvider \/ historicalData = <<>>)) =>
        /\ outcome.kind = "error"
        /\ outcome.error = UninitializedError
        /\ DOMAIN outcome \cap ({"value"} \cup RecommendationFields) = {}
        /\ rec = "idle"

\* C1 witness: the call failed after an initialize left the window empty.
C1_Witness ==
    /\ RecCalled
    /\ outcome.kind = "error"
    /\ provider # NoProvider
    /\ historicalData = <<>>
    /\ \A c \in Callers : init[c].pc = "idle"

\* An initialize returned after FetchCount getBlock calls that all resolved
\* to null.
ZeroBlocksReturn ==
    /\ InitEnded
    /\ ~outcome.readFailed
    /\ outcome.attempts = FetchCount
    /\ outcome.retrieved = <<>>

\* C2: an initialize whose FetchCount fetches all resolve to null returns
\* normally and leaves the window empty, and a getGasRecommendation call made
\* next throws the uninitialized error.
C2_ZeroBlocksEmptyWindow ==
    /\ [](ZeroBlocksReturn => outcome.kind = "ok" /\ historicalData = <<>>)
    /\ [][ (ZeroBlocksReturn /\ outcome'.op = "getGasRecommendation"
              /\ outcome'.phase = "call")
           => (outcome'.kind = "error" /\ outcome'.error = UninitializedError) ]_vars

\* C2 witness: such an initialize replaced a non-empty window.
C2_Witness ==
    /\ ZeroBlocksReturn
    /\ outcome.previousLength > 0
    /\ historicalData = <<>>

\* C3 (as claimed): an initialize one of whose chain reads was rejected ends
\* with an error for its caller.
C3_ReadFailureSurfaces ==
    (InitEnded /\ outcome.readFailed) => outcome.kind = "error"

\* C4: when getFeeData rejects, getGasRecommendation rejects with that error,
\* hands over no value, leaves no fee read outstanding and does not touch the
\* window.
C4_FeeReadFailurePropagates ==
    /\ []( (RecResumed /\ outcome.feeRead = "rejected") =>
             /\ outcome.kind = "error"
             /\ outcome.error = ProviderError
             /\ "value" \notin DOMAIN outcome
             /\ rec = "idle" )
    /\ [][ (outcome'.op = "getGasRecommendation" /\ outcome'.phase = "resume")
           => historicalData' = historicalData ]_vars

\* C4 witness: a fee read was rejected with a window in place.
C4_Witness ==
    /\ RecResumed
    /\ outcome.feeRead = "rejected"
    /\ historicalData # <<>>

\* C5 (as claimed): when an initialize returns, the window is exactly the
\* samples of the blocks that call retrieved.
C5_WindowIsThisCallsBlocks ==
    (InitEnded /\ outcome.kind = "ok") => historicalData = Samples(outcome.retrieved)

\* The last step returned a recommendation computed from a non-empty window.
Recommended ==
    /\ RecResumed
    /\ outcome.kind = "ok"
    /\ historicalData # <<>>

\* C6 (as claimed): the historicalLow returned is at most the price of every
\* sample of the window.
C6_LowAtMostEveryPrice ==
    Recommended =>
        \A k \in 1..Len(historicalData) :
            outcome.value.historicalLow.v * PriceScale <= historicalData[k].price

\* C6 (amended): the historicalLow returned is the smallest price of the
\* window rounded to the nearest integer, a half rounding up: it exceeds no
\* sample's price by more than half a gwei, and is the rounding of one of them.
C6_LowIsRoundedMinimum ==
    Recommended =>
        LET low == outcome.value.historicalLow.v * PriceScale
        IN  /\ outcome.value.historicalLow.fin
            /\ \A k \in 1..Len(historicalData) :
                  2 * low <= 2 * historicalData[k].price + PriceScale
            /\ \E k \in 1..Len(historicalData) :
                  2 * historicalData[k].price + PriceScale < 2 * low + 2 * PriceScale

\* C6 witness: the rounded low lies above the smallest price of a window of
\* several prices.
C6_Witness ==
    /\ Recommended
    /\ \E k \in 1..Len(historicalData) :
          outcome.value.historicalLow.v * PriceScale > historicalData[k].price
    /\ \E j, k \in 1..Len(historicalData) :
          historicalData[j].price # historicalData[k].price

\* C7 (as claimed): getHistoricalData throws when the window is empty.
C7_EmptyWindowThrows ==
    (outcome.op = "getHistoricalData" /\ historicalData = <<>>) =>
        outcome.kind = "error"

\* C7 (amended): getHistoricalData never throws; it returns the window as it
\* is, the empty sequence before any initialize or after one that retrieved
\* nothing.
C7_ReturnsWindow ==
    outcome.op = "getHistoricalData" =>
        outcome.kind = "ok" /\ outcome.value = historicalData

\* C7 witness: the call made before any initialize.
C7_Witness ==
    /\ outcome.op = "getHistoricalData"
    /\ provider = NoProvider
    /\ historicalData = <<>>

\* C8: the window never holds more than FetchCount samples, and it holds
\* exactly one sample for each block that the call that wrote it retrieved:
\* a getBlock that resolved to null left no entry.  The same holds of the
\* sequence each initialize in flight is building.
C8_WindowBounded ==
    /\ Len(historicalData) <= FetchCount
    /\ historicalData = Samples(src)
    /\ \A c \in Callers :
          /\ init[c].blocks = Samples(init[c].got)
          /\ Len(init[c].blocks) <= init[c].i
          /\ init[c].i <= FetchCount

\* C8 witness: an initialize made all its fetches, some resolved to null,
\* and the window it wrote is shorter than the cap, while another
\* initialize is in flight.
C8_Witness ==
    /\ InitEnded
    /\ ~outcome.readFailed
    /\ outcome.attempts = FetchCount
    /\ Len(historicalData) > 0
    /\ Len(historicalData) < FetchCount
    /\ \E c \in Callers : init[c].pc = "awaitBlock"

\* The samples of the window that getHours puts in hour h on a host at
\* offset tz, their number and the sum of their prices.
SamplesOfHour(h, tz) ==
    {k \in 1..Len(historicalData) : GetHours(historicalData[k].timestamp, tz) = h}

CountOfHour(h, tz) == Cardinality(SamplesOfHour(h, tz))

RECURSIVE SumOfSamples(_)
SumOfSamples(S) ==
    IF S = {} THEN 0
    ELSE LET k == CHOOSE x \in S : TRUE
         IN  historicalData[k].price + SumOfSamples(S \ {k})

SumOfHour(h, tz) == SumOfSamples(SamplesOfHour(h, tz))

C10_PrintedHourIsUTC ==
    Recommended =>
        LET bestTime == outcome.value.bestTime
        IN  /\ bestTime.zone = "UTC"
            /\ bestTime.to = (bestTime.from + 1) % 24
            /\ \A k \in SamplesOfHour(bestTime.from, outcome.tz) :
                  UTCHour(historicalData[k].timestamp) = bestTime.from

\* The smallest price of the non-empty window and the sum of its prices.
WindowLow ==
    CHOOSE p \in {historicalData[k].price : k \in 1..Len(historicalData)} :
        \A k \in 1..Len(historicalData) : p <= historicalData[k].price

WindowSum == SumOfSamples(1..Len(historicalData))

\* The rendering "0.0%".
ZeroPercent == [fin |-> TRUE, sign |-> "", tenths |-> 0]

\* C11 (as claimed): whenever the live price and the historical low of a
\* recommendation are equal, 0 included, its estimated savings is "0.0%".
C11_EqualPricesZeroSavings ==
    (Recommended /\ outcome.gasPrice = WindowLow) =>
        outcome.value.estimatedSavings = ZeroPercent

SignedTenths(s) == IF s.sign = "-" THEN -s.tenths ELSE s.tenths

Abs(n) == IF n < 0 THEN -n ELSE n

\* C13: for every non-empty window and live price, getGasRecommendation
\* returns a recommendation; for a live price above 0 its savings is
\* (current - low) / current * 100 to the nearest tenth, negative when the
\* live price is below the low; for a live price of 0 the quotient is no
\* finite number and is returned as such, not thrown.
C13_SavingsFormula ==
    (RecResumed /\ outcome.feeRead = "resolved" /\ historicalData # <<>>) =>
        /\ outcome.kind = "ok"
        /\ LET cur == outcome.gasPrice
               s   == outcome.value.estimatedSavings
           IN  IF cur = 0 THEN ~s.fin
               ELSE /\ s.fin
                    /\ 2 * Abs(SignedTenths(s) * cur - 1000 * (cur - WindowLow)) <= cur
                    /\ (cur < WindowLow <=> s.sign = "-")

\* C13 witness: a live price below the low, returned with negative savings.
C13_Witness ==
    /\ Recommended
    /\ outcome.gasPrice > 0
    /\ outcome.gasPrice < WindowLow
    /\ outcome.value.estimatedSavings.sign = "-"

\* The window, as bucketed on the host of the last recommendation, is the
\* one of the scenario: 10 and 12 gwei in hour 0, 6 gwei in hour 5.
ScenarioWindow ==
    /\ Len(historicalData) = 3
    /\ SamplesOfHour(0, outcome.tz) = {1, 2}
    /\ SamplesOfHour(5, outcome.tz) = {3}
    /\ historicalData[1].price = 10 * PriceScale
    /\ historicalData[2].price = 12 * PriceScale
    /\ historicalData[3].price = 6 * PriceScale

\* C14: for the window {hour 0: 10, hour 0: 12, hour 5: 6} and a live price
\* of 20 gwei, one recommendation carries historical low 6, best hour 5,
\* savings 70.0%, current price 20 and the batching text.
C14_Scenario ==
    (Recommended /\ ScenarioWindow /\ outcome.gasPrice = 20 * PriceScale) =>
        /\ outcome.value.historicalLow = Fin(6)
        /\ outcome.value.currentGwei = 20
        /\ outcome.value.bestTime = [from |-> 5, to |-> 6, zone |-> "UTC"]
        /\ outcome.value.estimatedSavings = [fin |-> TRUE, sign |-> "", tenths |-> 700]
        /\ outcome.value.batchingRecommendation = BatchText

\* C14 witness: the scenario was computed.
C14_Witness ==
    /\ Recommended
    /\ ScenarioWindow
    /\ outcome.gasPrice = 20 * PriceScale

\* C15: getGasRecommendation and getHistoricalData leave the window as it
\* is, whether they return or throw; only a step of initialize changes it.
C15_ReadersLeaveWindow ==
    [][ /\ outcome'.op \in {"getGasRecommendation", "getHistoricalData"}
            => historicalData' = historicalData
        /\ historicalData' # historicalData
            => (outcome'.op = "initialize" /\ ~outcome'.readFailed) ]_vars

\* C15 witness: getHistoricalData returned a non-empty window and the
\* window is still that one.
C15_Witness ==
    /\ outcome.op = "getHistoricalData"
    /\ outcome.kind = "ok"
    /\ outcome.value # <<>>
    /\ historicalData = outcome.value

\* C16: an array returned by getHistoricalData keeps its contents through
\* every later step of initialize; a refresh rebinds the window to a new
\* array.
C16_SnapshotKept ==
    [][ (snapshot.taken /\ outcome'.op # "getHistoricalData") =>
            /\ snapshot'.taken
            /\ snapshot'.value = snapshot.value ]_vars

\* C16 witness: a non-empty array was handed out, a later initialize wrote
\* a different window, and the array handed out is no longer the window's.
C16_Witness ==
    /\ snapshot.taken
    /\ snapshot.value # <<>>
    /\ InitEnded /\ ~outcome.readFailed
    /\ historicalData # snapshot.value
    /\ ~snapshot.alias

\* C17: the window after a step of initialize is the complete result of the
\* call that took the step when that call reached line 183, whatever other
\* call is in flight or has written before, and the window it was before
\* the step otherwise.
C17_LastWriterWins ==
    [][ IF outcome'.op = "initialize" /\ ~outcome'.readFailed
        THEN /\ historicalData' = Samples(outcome'.retrieved)
             /\ outcome'.retrieved = init[outcome'.caller].got
                   \o SubSeq(outcome'.retrieved,
                             Len(init[outcome'.caller].got) + 1,
                             Len(outcome'.retrieved))
             /\ Len(outcome'.retrieved) - Len(init[outcome'.caller].got) <= 1
        ELSE historicalData' = historicalData ]_vars

\* C17 witness: two calls overlapped, both have completed, and the one that
\* wrote last replaced a window of another length by its own result.
C17_Witness ==
    /\ InitEnded /\ ~outcome.readFailed
    /\ outcome.overlapped
    /\ \A c \in Callers : init[c].pc = "idle"
    /\ outcome.previousLength > 0
    /\ outcome.previousLength # Len(outcome.retrieved)
    /\ historicalData = Samples(outcome.retrieved)

\* No block number occurs twice in q.
Distinct(q) == \A j, k \in 1..Len(q) : j # k => q[j] # q[k]

\* C18: a getBlock that resolves to null is skipped: a call none of whose
\* reads was rejected requests every block number from the head down to
\* head - (FetchCount - 1), each once, FetchCount requests in total, and
\* leaves a window with one sample per block retrieved; no call in flight
\* has requested a block number twice.
C18_NullBlockSkipped ==
    /\ \A c \in Callers : Distinct(init[c].requested)
    /\ (InitEnded /\ ~outcome.readFailed) =>
          /\ outcome.attempts = FetchCount
          /\ Len(outcome.requested) = FetchCount
          /\ Distinct(outcome.requested)
          /\ {outcome.requested[k] : k \in 1..FetchCount}
                = (outcome.head - (FetchCount - 1))..outcome.head
          /\ Len(historicalData) = Len(outcome.retrieved)
          /\ historicalData = Samples(outcome.retrieved)
          /\ \A k \in 1..Len(outcome.retrieved) :
                \E n \in (outcome.head - (FetchCount - 1))..outcome.head :
                    outcome.retrieved[k] = ChainBlock(n)

\* C18 witness: the second block came back null, and the first and the
\* third are in the window.
C18_Witness ==
    /\ InitEnded /\ ~outcome.readFailed
    /\ outcome.retrieved = <<ChainBlock(outcome.head), ChainBlock(outcome.head - 2)>>
    /\ Len(historicalData) = 2

\* C19: a call has one getBlock outstanding at a time, requested in
\* strictly descending block number from the head read by the call, and
\* the window holds its samples in that order, most recent first.
C19_SequentialDescending ==
    /\ \A c \in Callers :
          /\ init[c].pc = "awaitBlock" =>
                /\ Len(init[c].requested) = init[c].i + 1
                /\ Len(init[c].got) <= init[c].i
          /\ init[c].pc # "awaitBlock" => init[c].requested = <<>>
          /\ \A k \in 1..Len(init[c].requested) :
                init[c].requested[k] = init[c].currentBlock - (k - 1)
    /\ \A k \in 1..(Len(historicalData) - 1) :
          historicalData[k].timestamp > historicalData[k + 1].timestamp
    /\ (InitEnded /\ ~outcome.readFailed) =>
          \A k \in 1..Len(outcome.requested) :
              outcome.requested[k] = outcome.head - (k - 1)

\* C19 witness: a call fetched head, head - 1 and head - 2 in that order
\* and all three blocks are in the window.
C19_Witness ==
    /\ InitEnded /\ ~outcome.readFailed
    /\ outcome.requested = <<outcome.head, outcome.head - 1, outcome.head - 2>>
    /\ Len(historicalData) = 3
    /\ historicalData[1].timestamp > historicalData[3].timestamp

\* The sum of the counts of the buckets of hours lo..23.
RECURSIVE CountFrom(_, _)
CountFrom(buckets, lo) ==
    IF lo > 23 THEN 0 ELSE buckets[lo].count + CountFrom(buckets, lo + 1)

\* C20: every sample of the window is in exactly one of the 24 hour
\* buckets built by getGasRecommendation, and the counts of the buckets add
\* up to the length of the window.
C20_BucketsPartitionWindow ==
    (RecResumed /\ outcome.kind = "ok") =>
        /\ DOMAIN outcome.hourlyAverages = 0..23
        /\ CountFrom(outcome.hourlyAverages, 0) = Len(historicalData)
        /\ \A h \in 0..23 :
              outcome.hourlyAverages[h].count = Cardinality(SamplesOfHour(h, outcome.tz))
        /\ \A k \in 1..Len(historicalData) :
              Cardinality({h \in 0..23 : k \in SamplesOfHour(h, outcome.tz)}) = 1

\* C20 witness: a window of three samples in two buckets, one of them the
\* bucket the host's offset wraps into.
C20_Witness ==
    /\ Recommended
    /\ Len(historicalData) = 3
    /\ outcome.tz = 1
    /\ outcome.hourlyAverages[0].count = 2
    /\ outcome.hourlyAverages[1].count = 1

\* The last step returned from getHistoricalData or resumed
\* getGasRecommendation to a result.
ReaderReturned ==
    \/ outcome.op = "getHistoricalData" /\ outcome.kind = "ok"
    \/ RecResumed /\ outcome.kind = "ok"

\* C21: what a reader returns at any point of an initialize in progress is
\* computed from the window a completed call left (or the empty window):
\* a step of initialize that leaves the call in flight does not touch the
\* window, and the window changes only in the step after the last fetch, to
\* the complete list of that call.
C21_NoPartialWindow ==
    /\ [](ReaderReturned =>
            /\ historicalData = Samples(src)
            /\ outcome.op = "getHistoricalData" => outcome.value = Samples(src)
            /\ RecResumed =>
                  outcome.hourlyAverages = HourlyAverages(Samples(src), outcome.tz))
    /\ [][ /\ src' # src =>
                /\ outcome'.op = "initialize" /\ ~outcome'.readFailed
                /\ outcome'.attempts = FetchCount
                /\ src' = outcome'.retrieved
           /\ historicalData' # historicalData =>
                /\ outcome'.op = "initialize" /\ ~outcome'.readFailed
                /\ outcome'.attempts = FetchCount
                /\ historicalData' = Samples(outcome'.retrieved) ]_vars

\* C21 witness: getHistoricalData returned the previous, non-empty window
\* while a call in flight had already collected samples of its own.
C21_Witness ==
    /\ outcome.op = "getHistoricalData"
    /\ outcome.value # <<>>
    /\ outcome.value = historicalData
    /\ \E c \in Callers :
          /\ init[c].pc = "awaitBlock"
          /\ init[c].blocks # <<>>
          /\ init[c].blocks # outcome.value

\* C22: a call whose head read or block fetch was rejected leaves the
\* window as it was and drops the blocks it had fetched, while the provider
\* was stored when the call was made: after a call that no other call
\* overlapped it is the provider passed to it.
C22_FailedCallKeepsWindow ==
    [][ /\ (outcome'.op = "initialize" /\ outcome'.readFailed) =>
              /\ historicalData' = historicalData
              /\ src' = src
              /\ provider' = provider
              /\ provider' \in Providers
              /\ ~outcome'.overlapped => provider' = outcome'.passed
              /\ init'[outcome'.caller] = Idle
        /\ \A c \in Callers :
              (init[c].pc = "idle" /\ init'[c].pc # "idle") =>
                  /\ provider' = init'[c].passed
                  /\ historicalData' = historicalData ]_vars

\* C22 witness: a call given another provider than the one stored fetched
\* blocks, then a fetch was rejected; the window is the one of an earlier
\* call, not the blocks fetched, and the provider is the one passed.
C22_Witness ==
    /\ InitEnded /\ outcome.readFailed
    /\ ~outcome.overlapped
    /\ outcome.retrieved # <<>>
    /\ historicalData # <<>>
    /\ historicalData # Samples(outcome.retrieved)
    /\ outcome.passed = "p2"
    /\ provider = "p2"

\* C25: in every state of the wallet store isConnected is true exactly
\* when address and provider are both non-null, and when it is false the
\* balance is '0'.
C25_ConnectedIffBound ==
    /\ wallet.isConnected <=> (wallet.address # "null" /\ wallet.provider # "null")
    /\ ~wallet.isConnected => wallet.balance = <<0>>

\* C25 witness: a connect that got no account failed after another connect
\* had succeeded; the store is connected.
C25_Witness ==
    /\ outcome.op = "connect"
    /\ ~outcome.stored /\ ~outcome.opened
    /\ outcome.accounts = <<>>
    /\ wallet.isConnected
    /\ wallet.balance # <<0>>

\* C26: disconnect leaves a connect in flight where it is, and when the
\* reads of that connect resolve the store is set to connected with the
\* address, balance and provider of that connect.
C26_DisconnectDoesNotCancel ==
    /\ []((outcome.op = "connect" /\ outcome.stored) =>
            /\ wallet.isConnected
            /\ wallet.address = outcome.accounts[1]
            /\ wallet.balance = <<outcome.balance[1] \div EtherScale,
                                  outcome.balance[1] % EtherScale>>
            /\ wallet.provider = outcome.caller)
    /\ [][outcome'.op = "disconnect" =>
            \A k \in ConnectCallers :
                /\ connect'[k].pc = connect[k].pc
                /\ connect'[k].accounts = connect[k].accounts]_vars

\* C26 witness: disconnect ran while a connect was in flight, the connect
\* then completed, and the store is connected.
C26_Witness ==
    /\ outcome.op = "connect"
    /\ outcome.stored
    /\ outcome.disconnected
    /\ wallet.isConnected
    /\ wallet.provider = outcome.caller

\* The order of the remote steps of generateYieldStrategy.
StepOrder == <<"base", "advice", "insights", "alerts">>

\* q is the first Len(q) steps of the order.
InStepOrder(q) == Len(q) <= 4 /\ q = SubSeq(StepOrder, 1, Len(q))

StrategySettled == outcome.op = "generateYieldStrategy"

\* C27 (as claimed): the steps are issued in order; a failed base or advice
\* step rejects the call with no later step issued; whenever the insights
\* or the alerts step failed, the strategy is returned with the fallback
\* list in its place.
C27_FallbackAlwaysReturns ==
    StrategySettled =>
        /\ InStepOrder(outcome.issued)
        /\ "base" \in outcome.failed =>
              outcome.kind = "error" /\ outcome.issued = <<"base">>
        /\ "advice" \in outcome.failed =>
              outcome.kind = "error" /\ outcome.issued = <<"base", "advice">>
        /\ "insights" \in outcome.failed =>
              outcome.kind = "ok" /\ outcome.value.insights = FallbackInsights
        /\ "alerts" \in outcome.failed =>
              outcome.kind = "ok" /\ outcome.value.alerts = FallbackAlerts

\* C27 (amended): the requests are issued in order, one outstanding at a
\* time; a failed base or advice step rejects the call with no later
\* request; a failed insights or alerts step is replaced by its two-entry
\* fallback list and does not reject the call.  The strategy is returned
\* exactly when base and advice succeeded and the base strategy carries
\* protocols and marketConditions: a null base strategy rejects before the
\* advice request, one without protocols before the alerts request, one
\* without marketConditions after all four requests.
C27_FallbackUnlessMalformedBase ==
    /\ InStepOrder(strategy.issued)
    /\ Len(strategy.issued) =
          CASE strategy.pc = "idle" -> 0
            [] strategy.pc = "awaitBase" -> 1
            [] strategy.pc = "awaitAdvice" -> 2
            [] strategy.pc = "awaitInsights" -> 3
            [] strategy.pc = "awaitAlerts" -> 4
    /\ StrategySettled =>
          /\ InStepOrder(outcome.issued)
          /\ "base" \in outcome.failed =>
                outcome.kind = "error" /\ outcome.issued = <<"base">>
          /\ "advice" \in outcome.failed =>
                outcome.kind = "error" /\ outcome.issued = <<"base", "advice">>
          /\ outcome.kind = "ok" <=>
                (outcome.failed \cap {"base", "advice"} = {} /\ outcome.base = "full")
          /\ outcome.kind = "ok" =>
                /\ outcome.issued = StepOrder
                /\ outcome.value.insights =
                      IF "insights" \in outcome.failed
                      THEN << "Market analysis temporarily unavailable",
                              "Please check back later for updated insights" >>
                      ELSE RemoteInsights
                /\ outcome.value.alerts =
                      IF "alerts" \in outcome.failed
                      THEN << "Risk assessment temporarily unavailable",
                              "Monitor protocol status for updates" >>
                      ELSE RemoteAlerts
          /\ (outcome.kind = "error" /\ outcome.failed \cap {"base", "advice"} = {}) =>
                /\ outcome.error = StrategyTypeError
                /\ outcome.issued =
                      CASE outcome.base = "null" -> <<"base">>
                        [] outcome.base = "noProtocols" -> <<"base", "advice", "insights">>
                        [] outcome.base = "noMarketConditions" -> StepOrder

\* C27 witness: the insights and the alerts step both failed and the
\* strategy was returned with both fallback lists.
C27_Witness ==
    /\ StrategySettled
    /\ outcome.kind = "ok"
    /\ outcome.failed = {"insights", "alerts"}
    /\ Len(outcome.value.insights) = 2
    /\ Len(outcome.value.alerts) = 2


\* The step is a call of getGasRecommendation made by updateGasData: by a
\* tick of an interval, or by the first update of a mount.
UpdateCalled(event) ==
    /\ outcome'.op = "getGasRecommendation"
    /\ outcome'.phase = "call"
    /\ driver'.last.event = event

\* Only the first mount has happened so far.
SingleMount == \A n \in 2..Len(MountOrder) : driver.pc[MountOrder[n]] = "unused"

\* C23 as stated: once the initialize of the first mount has returned, the
\* window never changes again.  Refuted: AdvancedReporting is rendered while
\* the wallet is connected (App, part_002:137-144), so a disconnect and a
\* reconnect mount it again, and the initialize of the second mount replaces
\* the window of the shared GasOptimizer.
C23_WindowFixedAfterFirstInitialize ==
    [][ (driver.pc[MountOrder[1]] \in {"awaitUpdate", "running"})
            => historicalData' = historicalData ]_vars

\* C23: under AdvancedReporting, initialize is entered only by the effect of
\* a mount, once for each mount; an update (the first one or a tick) leaves
\* the window, the provider and the initialize frames alone; the window
\* changes only in the last step of the initialize of a mount, so while no
\* second mount has happened it stays what the first initialize left; and if
\* that is the empty window, every update fails at the guard with the
\* uninitialized error, none is ever in flight and the component never holds
\* a recommendation.
C23_TicksNeverRefresh ==
    /\ [][ /\ \A c \in Callers :
                (init[c].pc = "idle" /\ init'[c].pc # "idle")
                    => /\ driver.pc[c] = "unused"
                       /\ driver'.pc[c] = "awaitInitialize"
                       /\ ~driver.mounted /\ driver'.current = c
           /\ (outcome'.op = "getGasRecommendation")
                    => UNCHANGED <<historicalData, provider, init>>
           /\ (historicalData' # historicalData)
                    => \E c \in Callers :
                          /\ driver.pc[c] = "awaitInitialize"
                          /\ init[c].pc = "awaitBlock" /\ init'[c].pc = "idle"
           /\ ( /\ SingleMount /\ SingleMount'
                /\ driver.pc[MountOrder[1]] \in {"awaitUpdate", "running"} )
                    => historicalData' = historicalData ]_vars
    /\ []( ( /\ SingleMount
             /\ driver.pc[MountOrder[1]] \in {"awaitUpdate", "running"}
             /\ historicalData = <<>> )
            => /\ driver.update = NoUpdate
               /\ rec = "idle"
               /\ driver.view.gasRecommendation = <<>>
               /\ driver.view.gasData = <<>>
               /\ (outcome.op = "getGasRecommendation")
                    => outcome = RecThrewAtCall(UninitializedError) )

\* C23 witness: the first initialize left the window empty, the interval is
\* running and its tick has just failed with the uninitialized error; the
\* component shows no recommendation.
C23_Witness ==
    /\ SingleMount
    /\ driver.pc[MountOrder[1]] = "running"
    /\ driver.last = [event |-> "tick", mount |-> MountOrder[1]]
    /\ outcome = RecThrewAtCall(UninitializedError)
    /\ historicalData = <<>>
    /\ driver.view.gasRecommendation = <<>>
    /\ ~driver.view.isLoading

\* C24: unmounting clears no interval: the live intervals are the same after
\* an unmount as before it, no step ever removes one, and the intervals are
\* exactly those of the mounts whose initializer reached setInterval,
\* mounted or not, so each mount that gets that far adds one.
C24_TimerSurvivesUnmount ==
    /\ [][ /\ (driver.mounted /\ ~driver'.mounted)
                => driver'.timers = driver.timers
           /\ driver.timers \subseteq driver'.timers ]_vars
    /\ [](driver.timers = {c \in Callers : driver.pc[c] = "running"})

\* C24 witness: the component was mounted twice and two intervals are live;
\* the interval of the first mount, unmounted since, has just fired.
C24_Witness ==
    /\ driver.timers = {MountOrder[1], MountOrder[2]}
    /\ driver.current = MountOrder[2]
    /\ driver.last = [event |-> "tick", mount |-> MountOrder[1]]
    /\ outcome.op = "getGasRecommendation"


\* C28: iteration i of initialize requests block head - i for every i below
\* FetchCount, whatever the head: on a chain whose head is below
\* FetchCount - 1 the iterations past block 0 request negative numbers, and
\* a call that ran its loop to the end made FetchCount - 1 - head such
\* requests.
C28_RequestsBelowZero ==
    /\ \A c \in Callers :
          init[c].pc = "awaitBlock" =>
              /\ init[c].i < FetchCount
              /\ init[c].requested[init[c].i + 1] = init[c].currentBlock - init[c].i
              /\ (init[c].i > init[c].currentBlock)
                    => init[c].requested[init[c].i + 1] < 0
    /\ (InitEnded /\ ~outcome.readFailed /\ outcome.head < FetchCount - 1) =>
          /\ Len(outcome.requested) = FetchCount
          /\ outcome.requested[FetchCount] = outcome.head - (FetchCount - 1)
          /\ Cardinality({k \in 1..FetchCount : outcome.requested[k] < 0})
                = FetchCount - 1 - outcome.head

\* C28 witness: with the head at block 1 a call ran its loop to the end,
\* requested block 0 and then a negative block number.
C28_Witness ==
    /\ InitEnded /\ ~outcome.readFailed
    /\ outcome.head = 1
    /\ outcome.requested[2] = 0
    /\ outcome.requested[FetchCount] < 0

\* C29: every retrieved block leaves a sample, in the sequence a call is
\* building and in the window, and the sample of a block whose base fee is
\* null has price 0; a recommendation computed from a window holding such a
\* sample has historicalLow 0.
C29_NullFeeCountsAsZero ==
    /\ \A c \in Callers :
          /\ Len(init[c].blocks) = Len(init[c].got)
          /\ \A k \in 1..Len(init[c].got) :
                init[c].got[k].baseFeePerGas = NullFee => init[c].blocks[k].price = 0
    /\ Len(historicalData) = Len(src)
    /\ \A k \in 1..Len(src) :
          src[k].baseFeePerGas = NullFee => historicalData[k].price = 0
    /\ (Recommended /\ \E k \in 1..Len(src) : src[k].baseFeePerGas = NullFee)
          => outcome.value.historicalLow = Fin(0)

\* C29 witness: the window holds the sample of a block without base fee
\* next to a sample with a positive price, and the recommendation computed
\* from it has historicalLow 0.
C29_Witness ==
    /\ Recommended
    /\ \E k \in 1..Len(src) : src[k].baseFeePerGas = NullFee
    /\ \E k \in 1..Len(historicalData) : historicalData[k].price > 0
    /\ outcome.value.historicalLow = Fin(0)

====
